---- MODULE Spec2Model ----
(***************************************************************************)
(* Directive ("config comment") attachment of the nac3 fork of the         *)
(* RustPython parser: parser/src/config_comment_helper.rs and the entry    *)
(* points of parser/src/parser.rs.                                         *)
(*                                                                         *)
(* Spec      : the helper functions called by one grammar reduction with   *)
(*             arbitrary semantic values (the public functions' whole      *)
(*             input space, within the bounds).                            *)
(* SpecKinds : handle_small_stmt on lines whose first and last statement   *)
(*             range over every statement variant.                         *)
(* SpecParse : a token-by-token run of parse() over a bounded source, the  *)
(*             lexer and the statement productions driving the helpers.    *)
(*                                                                         *)
(* pc: "start"      between two statements (and before the first)          *)
(*     "line"       after a small statement of a line                      *)
(*     "semi"       after a ";"                                            *)
(*     "eol"        after the comment that ends a line of small statements *)
(*     "header"     after the header of a compound statement               *)
(*     "header_eol" after the comment that ends a header                   *)
(*     "hs_first"   in handle_small_stmt, before its first call            *)
(*     "hs_last"    in handle_small_stmt, before its second call           *)
(*     "failed"     an action returned Err or panicked                     *)
(*     "returned"   parse() has returned                                   *)
(***************************************************************************)
EXTENDS Integers, Sequences, FiniteSets

VARIABLES
    pc,             \* position of the run: see the actions
    prefix,         \* config_comment_prefix of parse(): Option<&str>
    com_loc,        \* <com_loc:@L>: where the production starts
    stmt_loc,       \* <stmt_loc:@L>: where the statement starts
    above_toks,     \* the (config_comment "\n")* tokens: the identifier of each
    end_tok,        \* the config_comment? token closing the line: Option
    stmts,          \* the statements of the line being reduced
    writes,         \* per statement: number of times its config_comment was written
    result,         \* what the production's action returned
    parse_result,   \* what parse() returned
    reduced,        \* the production reduced last: "none", "compound" or "simple"
    tree,           \* the statements reduced so far, in source order
    row,            \* SpecParse: the lexer's current row
    col,            \* SpecParse: the lexer's current column on this row
    source          \* SpecParse: the tokens read so far

vars == <<pc, prefix, com_loc, stmt_loc, above_toks, end_tok, stmts, writes,
          result, parse_result, reduced, tree, row, col, source>>

----------------------------------------------------------------------------
(* Bounds *)

\* the longest run of directive comments above a statement
MaxAbove == 2
\* the most statements on one line
MaxStmts == 3
\* SpecParse: the rows of the source
MaxLines == 4
\* SpecParse: the statements of the source
MaxTree == 2

\* the identifiers of the directives handed to a production
Idents == {1, 2}
\* the columns a line starts at: not indented, indented
Cols == {0, 4}
Rows == {1, 2}
Location == [row : Rows, column : Cols]

----------------------------------------------------------------------------
(* Values *)

NoneOpt == [some |-> FALSE]
Some(x) == [some |-> TRUE, val |-> x]

Ok(v) == [tag |-> "Ok", val |-> v]
Err(e) == [tag |-> "Err", error |-> e]
Panic(m) == [tag |-> "Panic", msg |-> m]
NoResult == [tag |-> "None"]

\* the prefix the tests pass: Some(" nac3:")
Nac3Prefix == " nac3:"

\* StmtKind variants with a config_comment that apply_config_comments accepts
SmallStmtKinds ==
    {"Pass", "Delete", "Expr", "Assign", "AugAssign", "AnnAssign", "Break",
     "Continue", "Return", "Raise", "Import", "ImportFrom", "Global",
     "Nonlocal", "Assert"}

\* the other StmtKind variants: the statements that open a suite
CompoundStmtKinds ==
    {"FunctionDef", "ClassDef", "For", "While", "If", "With", "Try"}

StmtKinds == SmallStmtKinds \cup CompoundStmtKinds

\* a statement node as its production builds it: no directive yet
NewStmt(kind, loc) == [node |-> kind, location |-> loc, config_comment |-> <<>>]

column(loc) == loc.column

\* Display of a Location inside the message
ShowLocation(loc) == <<"line", loc.row, "column", loc.column>>

AlignmentText == "config comment at top must have the same indentation with what it applies"

\* format!("... comment at {}, statement at {}", com_loc, stmt_loc)
AlignmentMessage(cl, sl) ==
    <<AlignmentText, "comment at", ShowLocation(cl), "statement at", ShowLocation(sl)>>

\* ParseError::User { error: LexicalError { location, error: OtherError(msg) } }
UserError(loc, msg) ==
    [variant |-> "User", location |-> loc, error |-> [kind |-> "OtherError", msg |-> msg]]

\* nac3com_above as the grammar hands it over: Vec<(Ident, Tok)>
AboveArg(toks) == [i \in 1..Len(toks) |-> <<toks[i], "\n">>]

\* nac3com_end as the grammar hands it over: Option<Ident>
EndArg(tok) == IF tok.some THEN Some(tok.val.id) ELSE NoneOpt

----------------------------------------------------------------------------
(* config_comment_helper.rs *)

\* .into_iter().map(|(com, _)| com)
MapCom(nac3com_above) == [i \in 1..Len(nac3com_above) |-> nac3com_above[i][1]]

\* nac3com_end.map_or_else(Vec::new, |com| vec![com])
EndVec(nac3com_end) == IF nac3com_end.some THEN <<nac3com_end.val>> ELSE <<>>

\* mutant: the error is located at the statement
make_config_comment_at_stmt(cl, sl, nac3com_above, nac3com_end) ==
    IF column(cl) # column(sl)
    THEN Err(UserError(sl, AlignmentMessage(cl, sl)))
    ELSE Ok(MapCom(nac3com_above) \o EndVec(nac3com_end))

\* mutant: the end directive is chained before the above-run
make_config_comment_end_first(cl, sl, nac3com_above, nac3com_end) ==
    IF column(cl) # column(sl)
    THEN Err(UserError(cl, AlignmentMessage(cl, sl)))
    ELSE Ok(EndVec(nac3com_end) \o MapCom(nac3com_above))

\* mutant: the rows are compared, not the columns
make_config_comment_rows(cl, sl, nac3com_above, nac3com_end) ==
    IF cl.row # sl.row
    THEN Err(UserError(cl, AlignmentMessage(cl, sl)))
    ELSE Ok(MapCom(nac3com_above) \o EndVec(nac3com_end))

\* mutant: the comparison is inverted
make_config_comment_inverted(cl, sl, nac3com_above, nac3com_end) ==
    IF column(cl) = column(sl)
    THEN Err(UserError(cl, AlignmentMessage(cl, sl)))
    ELSE Ok(MapCom(nac3com_above) \o EndVec(nac3com_end))

make_config_comment(cl, sl, nac3com_above, nac3com_end) ==
    IF column(cl) # column(sl)
    THEN Err(UserError(cl, AlignmentMessage(cl, sl)))
    ELSE Ok(MapCom(nac3com_above) \o EndVec(nac3com_end))

\* mutant: the last variant of the match is missing
HasConfigCommentNoAssert(kind) == kind \in SmallStmtKinds \ {"Assert"}

\* the match of apply_config_comments: the variants whose slot is bound
HasConfigComment(kind) == kind \in SmallStmtKinds

\* mutant: the slot is assigned, not extended
ExtendAssign(config_comment, comments) == comments

\* mutant: the comments are put in front of what the slot holds
ExtendFront(config_comment, comments) == comments \o config_comment

\* config_comment.extend(comments)
Extend(config_comment, comments) == config_comment \o comments

apply_config_comments(stmt, comments) ==
    IF HasConfigComment(stmt.node)
    THEN Ok([stmt EXCEPT !.config_comment = Extend(@, comments)])
    ELSE Panic("only small statements should call this function")

\* stmts[0]
FirstIndex(ss) == 1

\* mutant: the end directive goes to stmts[0] too
LastIndexZero(ss) == 1

\* stmts.last_mut().unwrap()
LastIndex(ss) == Len(ss)

\* the first call of handle_small_stmt
handle_small_stmt_first(ss, nac3com_above) ==
    apply_config_comments(ss[FirstIndex(ss)], MapCom(nac3com_above))

\* the second call of handle_small_stmt
handle_small_stmt_last(ss, nac3com_end) ==
    apply_config_comments(ss[LastIndex(ss)], EndVec(nac3com_end))

----------------------------------------------------------------------------
(* parser.rs *)

\* ParseError::from: the helper's error becomes the parse error at its location
ParseErrorFrom(e) == [location |-> e.location, error |-> <<"Lexical", e.error>>]

\* parse(): .parse(tokenizer).map_err(ParseError::from)
parse(outcome, body) ==
    CASE outcome.tag = "Err" -> Err(ParseErrorFrom(outcome.error))
      [] outcome.tag = "Panic" -> outcome
      [] OTHER -> Ok(body)

----------------------------------------------------------------------------
(* State *)

StartLocation == [row |-> 1, column |-> 0]

InitState(p) ==
    /\ pc = "start"
    /\ prefix = p
    /\ com_loc = StartLocation
    /\ stmt_loc = StartLocation
    /\ above_toks = <<>>
    /\ end_tok = NoneOpt
    /\ stmts = <<>>
    /\ writes = <<>>
    /\ result = NoResult
    /\ parse_result = NoResult
    /\ reduced = "none"
    /\ tree = <<>>
    /\ row = 1
    /\ col = 0
    /\ source = <<>>

Init == InitState(Some(Nac3Prefix))

\* the above-runs and end comments a production can be handed; an end comment
\* stands behind the statements of its line
AboveRuns == UNION {[1..n -> Idents] : n \in 0..MaxAbove}
EndToks(columns) == {NoneOpt} \cup {Some([id |-> i, column |-> c]) : i \in Idents, c \in columns}

\* the statement kinds drawn for the statements of a line
LineKinds == {"Pass", "Expr", "If"}

\* statement i of a line that starts at loc
LineLocation(loc, i) == [row |-> loc.row, column |-> loc.column + (i - 1)]

----------------------------------------------------------------------------
(* One reduction with arbitrary semantic values *)

\* a compound statement production: config_comment: make_config_comment(..)?
CallMakeConfigComment ==
    /\ pc = "start" /\ reduced = "none" /\ tree = <<>>
    /\ \E cl \in Location, sl \in Location, toks \in AboveRuns, k \in CompoundStmtKinds :
       \E e \in EndToks({sl.column + 1}) :
        LET r == make_config_comment(cl, sl, AboveArg(toks), EndArg(e)) IN
        /\ com_loc' = cl
        /\ stmt_loc' = sl
        /\ above_toks' = toks
        /\ end_tok' = e
        /\ result' = r
        /\ reduced' = "compound"
        /\ IF r.tag = "Ok"
           THEN /\ tree' = <<[NewStmt(k, sl) EXCEPT !.config_comment = r.val]>>
                /\ pc' = "start"
           ELSE /\ tree' = tree
                /\ pc' = "failed"
    /\ UNCHANGED <<prefix, stmts, writes, parse_result, row, col, source>>

\* the statements of one line handed to handle_small_stmt: a line holds at
\* least one statement; com_loc is where the above-run stood, which
\* handle_small_stmt is not told
CallHandleSmallStmt ==
    /\ pc = "start" /\ reduced = "none" /\ tree = <<>>
    /\ \E n \in 1..MaxStmts, cl \in Location, sl \in Location, toks \in AboveRuns :
       \E kinds \in [1..n -> LineKinds], e \in EndToks({sl.column + n}) :
        /\ com_loc' = cl
        /\ stmt_loc' = sl
        /\ above_toks' = toks
        /\ end_tok' = e
        /\ stmts' = [i \in 1..n |-> NewStmt(kinds[i], LineLocation(sl, i))]
        /\ writes' = [i \in 1..n |-> 0]
    /\ pc' = "hs_first"
    /\ UNCHANGED <<prefix, result, parse_result, reduced, tree, row, col, source>>

\* handle_small_stmt, first call: the above-run goes to stmts[0]
ApplyFirst ==
    /\ pc = "hs_first"
    /\ LET r == handle_small_stmt_first(stmts, AboveArg(above_toks))
           i == FirstIndex(stmts) IN
       IF r.tag = "Ok"
       THEN /\ stmts' = [stmts EXCEPT ![i] = r.val]
            /\ writes' = [writes EXCEPT ![i] = @ + 1]
            /\ pc' = "hs_last"
            /\ UNCHANGED result
       ELSE /\ result' = r
            /\ pc' = "failed"
            /\ UNCHANGED <<stmts, writes>>
    /\ UNCHANGED <<prefix, com_loc, stmt_loc, above_toks, end_tok, parse_result,
                   reduced, tree, row, col, source>>

\* handle_small_stmt, second call: the end comment goes to the last statement;
\* the production then returns Ok(statements)
ApplyLast ==
    /\ pc = "hs_last"
    /\ LET r == handle_small_stmt_last(stmts, EndArg(end_tok))
           i == LastIndex(stmts) IN
       IF r.tag = "Ok"
       THEN /\ stmts' = [stmts EXCEPT ![i] = r.val]
            /\ writes' = [writes EXCEPT ![i] = @ + 1]
            /\ result' = Ok(stmts')
            /\ tree' = tree \o stmts'
            /\ reduced' = "simple"
            /\ pc' = "start"
       ELSE /\ result' = r
            /\ pc' = "failed"
            /\ UNCHANGED <<stmts, writes, tree, reduced>>
    /\ UNCHANGED <<prefix, com_loc, stmt_loc, above_toks, end_tok, parse_result,
                   row, col, source>>

\* no production is open
NothingPending == reduced # "none" \/ above_toks = <<>>

\* parse() returns: the tokens are used up, or an action of the grammar failed
ParseReturn ==
    /\ \/ pc = "start" /\ NothingPending
       \/ pc = "failed"
    /\ parse_result' = parse(IF pc = "start" THEN Ok(tree) ELSE result, tree)
    /\ pc' = "returned"
    /\ UNCHANGED <<prefix, com_loc, stmt_loc, above_toks, end_tok, stmts, writes,
                   result, reduced, tree, row, col, source>>

Next ==
    \/ CallMakeConfigComment
    \/ CallHandleSmallStmt
    \/ ApplyFirst
    \/ ApplyLast
    \/ ParseReturn

Spec == Init /\ [][Next]_vars

----------------------------------------------------------------------------
(* handle_small_stmt over every statement variant *)

\* a line whose first and last statement are of any variant
CallHandleSmallStmtAnyKind ==
    /\ pc = "start" /\ reduced = "none" /\ tree = <<>>
    /\ \E n \in 1..MaxStmts, toks \in AboveRuns, first \in StmtKinds, last \in StmtKinds :
       \E e \in EndToks({StartLocation.column + n}) :
        LET kind(i) == IF i = n THEN last ELSE IF i = 1 THEN first ELSE "Pass" IN
        /\ above_toks' = toks
        /\ end_tok' = e
        /\ stmts' = [i \in 1..n |-> NewStmt(kind(i), LineLocation(StartLocation, i))]
        /\ writes' = [i \in 1..n |-> 0]
    /\ pc' = "hs_first"
    /\ UNCHANGED <<prefix, com_loc, stmt_loc, result, parse_result, reduced, tree,
                   row, col, source>>

NextKinds ==
    \/ CallHandleSmallStmtAnyKind
    \/ ApplyFirst
    \/ ApplyLast
    \/ ParseReturn

SpecKinds == Init /\ [][NextKinds]_vars


----------------------------------------------------------------------------
(* A run of parse() over a source, token by token *)

\* how the text after the '#' of a comment starts
CommentLeads == {Nac3Prefix, " note:"}

\* the columns of a comment on its own line: the other comments start the line
CommentCols(lead) == IF lead = Nac3Prefix THEN Cols ELSE {0}

\* the lexer's comment filter: a directive when the body starts with the prefix
CommentFilter(p, lead) == p.some /\ lead = p.val

\* the identifier of a directive: the rest of the comment; the comment of row r
\* reads r, so that a directive of the tree names the comment it comes from
CommentText(r) == r

\* the statement kinds of the source
SourceSmallKinds == {"Assign"}
SourceCompoundKinds == {"For"}

\* a token of the source as the lexer hands it over
Token(t, c, lead) == [tok |-> t, row |-> row, column |-> c, lead |-> lead]

\* the above-run of the production that is open
CurAbove == IF reduced = "none" THEN above_toks ELSE <<>>

\* the statements the source holds so far
SourceStmts == Len(tree) + (IF pc = "start" THEN 0 ELSE Len(stmts))

InitParse == \E p \in {NoneOpt, Some(Nac3Prefix)} : InitState(p)

\* a comment on a line of its own, before a statement
ScanOwnLineComment ==
    /\ pc = "start"
    /\ row <= MaxLines
    /\ \E lead \in CommentLeads : \E c \in CommentCols(lead) :
        /\ source' = Append(source, Token("comment", c, lead))
        /\ IF CommentFilter(prefix, lead)
           THEN /\ Len(CurAbove) < MaxAbove
                /\ above_toks' = Append(CurAbove, CommentText(row))
                /\ com_loc' = IF CurAbove = <<>> THEN [row |-> row, column |-> c]
                                                ELSE com_loc
                /\ end_tok' = NoneOpt
                /\ stmts' = <<>>
                /\ writes' = <<>>
                /\ reduced' = "none"
           ELSE UNCHANGED <<above_toks, com_loc, end_tok, stmts, writes, reduced>>
    /\ row' = row + 1
    /\ UNCHANGED <<pc, prefix, stmt_loc, result, parse_result, tree, col>>

\* the first token of a statement: stmt_loc, and com_loc when no comment came before
OpenStatement(k, c, next) ==
    LET loc == [row |-> row, column |-> c] IN
    /\ stmt_loc' = loc
    /\ com_loc' = IF CurAbove = <<>> THEN loc ELSE com_loc
    /\ above_toks' = CurAbove
    /\ end_tok' = NoneOpt
    /\ stmts' = <<NewStmt(k, loc)>>
    /\ writes' = <<0>>
    /\ reduced' = "none"
    /\ col' = c + 1
    /\ pc' = next
    /\ source' = Append(source, Token(k, c, ""))
    /\ UNCHANGED <<prefix, result, parse_result, tree, row>>

\* the first small statement of a line
ShiftSmallStmt ==
    /\ pc = "start"
    /\ row <= MaxLines
    /\ SourceStmts < MaxTree
    /\ \E k \in SourceSmallKinds, c \in Cols : OpenStatement(k, c, "line")

\* the header of a compound statement
ShiftHeader ==
    /\ pc = "start"
    /\ row <= MaxLines
    /\ SourceStmts < MaxTree
    /\ \E k \in SourceCompoundKinds, c \in Cols : OpenStatement(k, c, "header")

\* ";"
ShiftSemi ==
    /\ pc = "line"
    /\ pc' = "semi"
    /\ source' = Append(source, Token(";", col, ""))
    /\ UNCHANGED <<prefix, com_loc, stmt_loc, above_toks, end_tok, stmts, writes,
                   result, parse_result, reduced, tree, row, col>>

\* a small statement after ";"
ShiftNextStmt ==
    /\ pc = "semi"
    /\ Len(stmts) < MaxStmts
    /\ SourceStmts < MaxTree
    /\ \E k \in SourceSmallKinds :
        /\ stmts' = Append(stmts, NewStmt(k, [row |-> row, column |-> col]))
        /\ source' = Append(source, Token(k, col, ""))
    /\ writes' = Append(writes, 0)
    /\ col' = col + 1
    /\ pc' = "line"
    /\ UNCHANGED <<prefix, com_loc, stmt_loc, above_toks, end_tok, result,
                   parse_result, reduced, tree, row>>

\* a comment after the statements of the line, or after a header's ":"
ScanEndComment ==
    /\ pc \in {"line", "semi", "header"}
    /\ \E lead \in CommentLeads :
        /\ source' = Append(source, Token("comment", col, lead))
        /\ end_tok' = IF CommentFilter(prefix, lead)
                      THEN Some([id |-> CommentText(row), column |-> col])
                      ELSE end_tok
    /\ pc' = IF pc = "header" THEN "header_eol" ELSE "eol"
    /\ UNCHANGED <<prefix, com_loc, stmt_loc, above_toks, stmts, writes, result,
                   parse_result, reduced, tree, row, col>>

\* "\n" closing a line of small statements: the alignment of the above-run is
\* resolved, then the directives are distributed by handle_small_stmt
ShiftNewline ==
    /\ pc \in {"line", "semi", "eol"}
    /\ LET r == make_config_comment(com_loc, stmt_loc, AboveArg(above_toks),
                                    EndArg(end_tok)) IN
       IF r.tag = "Err"
       THEN result' = r /\ pc' = "failed"
       ELSE pc' = "hs_first" /\ UNCHANGED result
    /\ source' = Append(source, Token("\n", col, ""))
    /\ row' = row + 1
    /\ col' = 0
    /\ UNCHANGED <<prefix, com_loc, stmt_loc, above_toks, end_tok, stmts, writes,
                   parse_result, reduced, tree>>

\* a compound statement is built: config_comment: make_config_comment(..)?
ReduceCompound ==
    /\ pc \in {"header", "header_eol"}
    /\ LET r == make_config_comment(com_loc, stmt_loc, AboveArg(above_toks),
                                    EndArg(end_tok)) IN
       /\ result' = r
       /\ reduced' = "compound"
       /\ IF r.tag = "Ok"
          THEN /\ stmts' = <<[stmts[1] EXCEPT !.config_comment = r.val]>>
               /\ tree' = tree \o stmts'
               /\ pc' = "start"
          ELSE /\ pc' = "failed"
               /\ UNCHANGED <<stmts, tree>>
    /\ source' = Append(source, Token("\n", col, ""))
    /\ row' = row + 1
    /\ col' = 0
    /\ UNCHANGED <<prefix, com_loc, stmt_loc, above_toks, end_tok, writes,
                   parse_result>>

NextParse ==
    \/ ScanOwnLineComment
    \/ ShiftSmallStmt
    \/ ShiftHeader
    \/ ShiftSemi
    \/ ShiftNextStmt
    \/ ScanEndComment
    \/ ShiftNewline
    \/ ReduceCompound
    \/ ApplyFirst
    \/ ApplyLast
    \/ ParseReturn

SpecParse == InitParse /\ [][NextParse]_vars

----------------------------------------------------------------------------
(* Properties *)

\* the identifier of the end directive, as a list
EndIds == IF end_tok.some THEN <<end_tok.val.id>> ELSE <<>>

\* the above-run in source order, then the end directive
Expected == above_toks \o EndIds

IsPrefix(a, b) == Len(a) <= Len(b) /\ SubSeq(b, 1, Len(a)) = a

RECURSIVE Attached(_)
\* the directives of a sequence of statements, statement after statement
Attached(ss) ==
    IF ss = <<>> THEN <<>> ELSE ss[1].config_comment \o Attached(Tail(ss))

\* how often x occurs in seq
CountIn(seq, x) == Cardinality({i \in DOMAIN seq : seq[i] = x})

SameBag(a, b) ==
    /\ Len(a) = Len(b)
    /\ \A x \in Idents : CountIn(a, x) = CountIn(b, x)

\* make_config_comment was called and returned
ResolverReturned == reduced = "compound"

\* handle_small_stmt was called and returned
HandleReturned == reduced = "simple"

\* C1: a call of make_config_comment with a non-empty above-run and a comment
\* column that differs from the statement's column returns the alignment error,
\* located at the comment and naming both locations; parse() then returns an
\* error at that location and no tree.
C1_AlignmentError ==
    (ResolverReturned /\ above_toks # <<>> /\ column(com_loc) # column(stmt_loc)) =>
        /\ result.tag = "Err"
        /\ result.error.variant = "User"
        /\ result.error.location = com_loc
        /\ result.error.error.msg[1] = AlignmentText
        /\ result.error.error.msg[3] = ShowLocation(com_loc)
        /\ result.error.error.msg[5] = ShowLocation(stmt_loc)
        /\ tree = <<>>
        /\ pc \in {"failed", "returned"}
        /\ pc = "returned" =>
            /\ parse_result.tag = "Err"
            /\ parse_result.error.location = com_loc
            /\ parse_result.error.error[2].msg[3] = ShowLocation(com_loc)
            /\ parse_result.error.error[2].msg[5] = ShowLocation(stmt_loc)

C1_Witness ==
    /\ pc = "returned"
    /\ ResolverReturned
    /\ Len(above_toks) = 2
    /\ column(com_loc) = 4
    /\ column(stmt_loc) = 0
    /\ parse_result.tag = "Err"

\* C2: the directive list of a statement is the above-run in source order
\* followed by the end directive if there is one, both as returned by
\* make_config_comment and as left by handle_small_stmt on a line of one
\* statement.
C2_AboveThenEnd ==
    /\ (ResolverReturned /\ result.tag = "Ok") =>
        /\ result.val = Expected
        /\ tree[1].config_comment = Expected
    /\ (HandleReturned /\ Len(stmts) = 1) =>
        /\ stmts[1].config_comment = Expected
        /\ tree[1].config_comment = Expected

C2_Witness ==
    /\ HandleReturned
    /\ Len(stmts) = 1
    /\ above_toks = <<1, 2>>
    /\ end_tok.some
    /\ end_tok.val.id = 1
    /\ stmts[1].config_comment = <<1, 2, 1>>

\* C3: on a line of two or more statements the first statement holds the whole
\* above-run, the last holds the end directive only, every statement between
\* them holds nothing.
C3_FirstAndLast ==
    (HandleReturned /\ Len(stmts) >= 2) =>
        /\ stmts[1].config_comment = above_toks
        /\ stmts[Len(stmts)].config_comment = EndIds
        /\ \A i \in 2..(Len(stmts) - 1) : stmts[i].config_comment = <<>>
        /\ tree = stmts

C3_Witness ==
    /\ HandleReturned
    /\ Len(stmts) = 3
    /\ above_toks = <<2, 1>>
    /\ end_tok.some
    /\ stmts[1].config_comment = <<2, 1>>
    /\ stmts[2].config_comment = <<>>
    /\ stmts[3].config_comment = EndIds

\* C4: after a successful attachment every directive of the above-run and of the
\* end slot occurs as often among the attached directives as it was handed
\* over: none is lost, none is duplicated; a parse that returns a tree returns
\* one that holds them all.
C4_NoneLostNoneDuplicated ==
    /\ (ResolverReturned /\ result.tag = "Ok") => SameBag(result.val, Expected)
    /\ HandleReturned => SameBag(Attached(stmts), Expected)
    /\ (pc = "returned" /\ parse_result.tag = "Ok") =>
        SameBag(Attached(parse_result.val), Expected)

C4_Witness ==
    /\ pc = "returned"
    /\ parse_result.tag = "Ok"
    /\ HandleReturned
    /\ Len(stmts) = 1
    /\ above_toks = <<2, 2>>
    /\ end_tok.some
    /\ end_tok.val.id = 2
    /\ Len(Attached(parse_result.val)) = 3

C6_EmptyAboveNeverFails ==
    (ResolverReturned /\ above_toks = <<>>) =>
        /\ result.tag = "Ok"
        /\ result.val = EndIds

\* C8: handle_small_stmt with a compound statement as the first or the last
\* statement of the line panics, also without any directive, and never returns
\* an error value; with two of the 15 simple variants there it never fails.
C8_CompoundPanics ==
    LET Simple == {"Pass", "Delete", "Expr", "Assign", "AugAssign", "AnnAssign",
                   "Break", "Continue", "Return", "Raise", "Import", "ImportFrom",
                   "Global", "Nonlocal", "Assert"}
        n == Len(stmts)
    IN  (stmts # <<>> /\ pc \in {"start", "failed", "returned"}) =>
            /\ result.tag \in {"Ok", "Panic"}
            /\ result.tag = "Panic" <=>
                (stmts[1].node \notin Simple \/ stmts[n].node \notin Simple)
            /\ result.tag = "Panic" => pc \in {"failed", "returned"} /\ tree = <<>>
            /\ pc = "returned" => parse_result.tag = result.tag

C8_Witness ==
    /\ pc = "returned"
    /\ Len(stmts) = 2
    /\ stmts[1].node = "Assert"
    /\ stmts[2].node = "Try"
    /\ above_toks = <<>>
    /\ ~end_tok.some
    /\ parse_result.tag = "Panic"

\* one step of handle_small_stmt, as C9 states it
C9_WriteOnce ==
    pc \in {"hs_first", "hs_last"} =>
        \A i \in DOMAIN stmts :
            writes[i] >= 1 => (writes'[i] = writes[i] /\ stmts'[i] = stmts[i])

\* C9 as stated: no statement's directive list is written more than once, and
\* a list once written is not changed by a later write.
C9_WrittenOnce == [][C9_WriteOnce]_vars

\* one step of handle_small_stmt, as C9 amended describes it
C9_Write ==
    pc \in {"hs_first", "hs_last"} =>
        /\ DOMAIN stmts' = DOMAIN stmts
        /\ \A i \in DOMAIN stmts :
            /\ writes'[i] \in {writes[i], writes[i] + 1}
            /\ writes'[i] = writes[i] => stmts'[i] = stmts[i]
            /\ IsPrefix(stmts[i].config_comment, stmts'[i].config_comment)
            /\ writes'[i] <= (IF Len(stmts) = 1 THEN 2 ELSE 1)
            /\ (1 < i /\ i < Len(stmts)) => writes'[i] = 0
        /\ HandleReturned' =>
            /\ writes'[1] >= 1
            /\ writes'[Len(stmts)] = (IF Len(stmts) = 1 THEN 2 ELSE 1)

\* C9 amended: a run of handle_small_stmt writes the first statement once and
\* the last statement once and no other; on a line of one statement these are
\* two writes of the same list, on a longer line no list is written twice;
\* every write appends: what the list held before stays in front.
C9_WritesAppend == [][C9_Write]_vars

C9_Witness ==
    /\ HandleReturned
    /\ Len(stmts) = 1
    /\ writes[1] = 2
    /\ above_toks # <<>>
    /\ end_tok.some
    /\ stmts[1].config_comment = Expected

\* C7: without a prefix no statement of the tree carries a directive, whatever
\* the comments of the source are, and the parse never ends with the alignment
\* error.
C7_NoPrefixNoDirectives ==
    ~prefix.some =>
        /\ \A i \in DOMAIN tree : tree[i].config_comment = <<>>
        /\ \A i \in DOMAIN stmts : stmts[i].config_comment = <<>>
        /\ result.tag # "Err"
        /\ pc # "failed"
        /\ pc = "returned" => parse_result = Ok(tree)

C7_Witness ==
    /\ ~prefix.some
    /\ pc = "returned"
    /\ Len(tree) = 2
    /\ \E i \in 1..(Len(source) - 2) :
        /\ source[i].tok = "comment"
        /\ source[i].lead = Nac3Prefix
        /\ source[i].column = 4
        /\ source[i + 1].tok \in SourceSmallKinds
        /\ source[i + 1].column = 0
        /\ source[i + 2].tok = "comment"
        /\ source[i + 2].lead = Nac3Prefix

\* token i of the source is a directive comment
IsDirectiveAt(i) ==
    /\ i \in DOMAIN source
    /\ source[i].tok = "comment"
    /\ CommentFilter(prefix, source[i].lead)

\* the source ends with: a run of one directive D1 at b, the small statement S1
\* under it (followed by ";" when semi), a directive D2 under that, the
\* statement S2 under it, all four at one column
TwoCommentedLines(b, semi) ==
    LET s1 == b + 1
        d2 == IF semi THEN b + 4 ELSE b + 3
    IN  /\ b >= 1
        /\ Len(source) = d2 + 2
        /\ ~IsDirectiveAt(b - 1)
        /\ IsDirectiveAt(b)
        /\ source[s1].tok \in SourceSmallKinds
        /\ semi => source[s1 + 1].tok = ";"
        /\ source[d2 - 1].tok = "\n"
        /\ IsDirectiveAt(d2)
        /\ source[d2 + 1].tok \in SourceSmallKinds \cup SourceCompoundKinds
        /\ source[d2 + 2].tok = "\n"
        /\ source[s1].column = source[b].column
        /\ source[d2].column = source[b].column
        /\ source[d2 + 1].column = source[b].column

\* C10: a directive at the column of the statement under it goes to that
\* statement and not to the statement before it, with or without a ";" closing
\* the statement before it: S1 holds exactly D1, S2 holds exactly D2.
C10_DirectiveGoesDown ==
    \A semi \in BOOLEAN :
        LET b == Len(source) - (IF semi THEN 6 ELSE 5)
            d2 == IF semi THEN b + 4 ELSE b + 3
            n == Len(tree)
        IN  (pc \in {"start", "returned", "failed"} /\ TwoCommentedLines(b, semi)) =>
                /\ pc # "failed"
                /\ n >= 2
                /\ tree[n - 1].location.row = source[b + 1].row
                /\ tree[n - 1].config_comment = <<CommentText(source[b].row)>>
                /\ tree[n].location.row = source[d2 + 1].row
                /\ tree[n].config_comment = <<CommentText(source[d2].row)>>

C10_Witness ==
    /\ pc = "returned"
    /\ TwoCommentedLines(1, TRUE)
    /\ source[1].column = 4
    /\ parse_result.tag = "Ok"
    /\ parse_result.val[1].config_comment = <<1>>
    /\ parse_result.val[2].config_comment = <<3>>

====
